---- MODULE Spec2Model ----
(***************************************************************************)
(* publisa/models.py: the Publish record store, its manager queries, the   *)
(* class/instance descriptor, the record helpers and the two post_save     *)
(* receivers, as a state machine over the record table, the entities'      *)
(* published_at column and the cache.                                      *)
(***************************************************************************)
EXTENDS Integers, FiniteSets, Sequences, TLC

VARIABLES records, published_at, cache, last

vars == <<records, published_at, cache, last>>

(* ---- bounds ----------------------------------------------------------- *)

\* datetimes are 0..MaxTime
MaxTime == 1
\* rows of the Publish table under SpecBanner
MaxBannerRecords == 1

Times == 0..MaxTime

(* ---- the content models that opt into publishing ---------------------- *)

\* The content objects a Publish row can point at (content_type, object_id).
\* Two articles share a model; the primary keys overlap across models.
Entities ==
    { [model |-> "article", pk |-> 1], [model |-> "article", pk |-> 2],
      [model |-> "photo", pk |-> 1], [model |-> "page", pk |-> 1] }

Models == { e.model : e \in Entities }

\* the content objects that get a Publish row under Spec and SpecCacheFail
Listed == { e \in Entities : e.model # "photo" }

\* hasattr(content_object, attr): the optional attributes a content model
\* declares.  article declares all of them, photo only allow_banners, page none.
hasattr(obj, attr) ==
    CASE obj.model = "article" ->
             attr \in {"allow_banners", "publish_banner_image", "published_at"}
      [] obj.model = "photo" -> attr \in {"allow_banners"}
      [] OTHER -> FALSE

\* content_object.allow_banners, for the models that declare it
allow_banners(obj) == ~(obj.model = "article" /\ obj.pk = 2)

\* content_object.publish_banner_image, for the models that declare it
publish_banner_image(obj) == "override.png"

\* banner_image left blank (blank=True)
NoImage == ""

Images == {NoImage, "banner.png"}

\* the value of a nullable column that was never written
Null == -1

(* ---- result values ---------------------------------------------------- *)

Return(v) == [tag |-> "return", val |-> v]

ReturnNone == [tag |-> "None"]

Raise(e) == [tag |-> "raise", exc |-> e]

(* ---- Publish rows ----------------------------------------------------- *)

\* ContentType.objects.get_for_model(model): one content type per model
ContentTypeFor(model) == model

\* Publish.content_object: the generic foreign key, dereferenced
content_object(p) == [model |-> p.content_type, pk |-> p.object_id]

\* unique_together with the constraint missing from the table
unique_together_dropped(table, ct, oid) == TRUE

\* Meta.unique_together = ('content_type', 'object_id'): may a row for
\* (ct, oid) be inserted into table?
unique_together(table, ct, oid) ==
    ~\E q \in table : q.content_type = ct /\ q.object_id = oid

\* the AutoField primary key of the next inserted row (rows are never deleted)
NextPk == Cardinality(records) + 1

(* ---- PublishManager --------------------------------------------------- *)

RECURSIVE Perms(_)
\* every sequence that lists the elements of S once each
Perms(S) ==
    IF S = {} THEN {<<>>}
    ELSE UNION { { <<x>> \o s : s \in Perms(S \ {x}) } : x \in S }

\* Meta.ordering = ['-publish']: the row sequences a query over rows may
\* produce (rows with equal publish come in any order)
ordering(rows) ==
    { s \in Perms(rows) :
        \A i, j \in 1..Len(s) : i < j => s[i].publish >= s[j].publish }

\* PublishedFilter with publish__lt in place of publish__lte
PublishedFilterLt(p, now) == p.approved = TRUE /\ p.publish < now

\* filter(approved=True, publish__lte=now)
PublishedFilter(p, now) == p.approved = TRUE /\ p.publish <= now

\* PublishManager.published(), its rows
PublishedRows(now) == { p \in records : PublishedFilter(p, now) }

\* PublishManager.published(), evaluated: the possible row sequences
published(now) == ordering(PublishedRows(now))

\* PublishManager.get_for_object(obj)
get_for_object(obj) ==
    LET ctype == ContentTypeFor(obj.model)
        found == { p \in records : p.content_type = ctype /\ p.object_id = obj.pk }
    IN  IF found = {} THEN ReturnNone
        ELSE IF Cardinality(found) > 1 THEN Raise("MultipleObjectsReturned")
        ELSE Return(CHOOSE p \in found : TRUE)

(* ---- PublishDescriptor ---------------------------------------------- *)

\* model.objects.filter(pk__in=ids), evaluated: the query names no ordering
\* of its own, so the rows of the content model come back in the order the
\* content model's table and manager give them, whatever ids' order was
ModelObjectsFilter(model, ids) ==
    Perms({ e \in Entities : e.model = model /\ e.pk \in ids })

\* DescriptorGetOnModel without the content type filter on the Publish rows
DescriptorGetOnModelAnyType(model, now) ==
    ModelObjectsFilter(model, { p.object_id : p \in PublishedRows(now) })

\* PublishDescriptor.__get__(None, model): the attribute read on the class
DescriptorGetOnModel(model, now) ==
    LET ctype == ContentTypeFor(model)
        all_p == { p \in PublishedRows(now) : p.content_type = ctype }
    IN  ModelObjectsFilter(model, { p.object_id : p \in all_p })

\* PublishDescriptor.__get__(instance, model): the attribute read on an instance
DescriptorGetOnInstance(instance) == get_for_object(instance)

(* ---- Publish methods -------------------------------------------------- *)

\* the order get_next_by_publish / get_previous_by_publish walk: publish,
\* then primary key
Before(a, b) ==
    \/ a.publish < b.publish
    \/ a.publish = b.publish /\ a.pk < b.pk

\* get_next_or_previous_by_publish with the query ordered the wrong way round
get_next_or_previous_by_publish_reversed(self, is_next) ==
    LET qs == { p \in records :
                  /\ p.approved = TRUE
                  /\ IF is_next THEN Before(self, p) ELSE Before(p, self) }
    IN  IF qs = {} THEN Raise("DoesNotExist")
        ELSE Return(CHOOSE p \in qs :
                      \A o \in qs \ {p} :
                          IF is_next THEN Before(o, p) ELSE Before(p, o))

\* self.get_next_by_publish(approved=True) (is_next) and
\* self.get_previous_by_publish(approved=True): filter, order, take row [0];
\* DoesNotExist when the query is empty
get_next_or_previous_by_publish(self, is_next) ==
    LET qs == { p \in records :
                  /\ p.approved = TRUE
                  /\ IF is_next THEN Before(self, p) ELSE Before(p, self) }
    IN  IF qs = {} THEN Raise("DoesNotExist")
        ELSE Return(CHOOSE p \in qs :
                      \A o \in qs \ {p} :
                          IF is_next THEN Before(p, o) ELSE Before(o, p))

\* Publish.get_previous_published
get_previous_published(self) ==
    LET prev_pub == get_next_or_previous_by_publish(self, FALSE)
    IN  IF prev_pub.tag = "raise" THEN prev_pub
        ELSE Return(content_object(prev_pub.val))

\* Publish.get_next_published
get_next_published(self) ==
    LET next_pub == get_next_or_previous_by_publish(self, TRUE)
    IN  IF next_pub.tag = "raise" THEN next_pub
        ELSE Return(content_object(next_pub.val))

\* Publish.get_banner_image
get_banner_image(self) ==
    LET obj == content_object(self)
    IN  IF ~hasattr(obj, "allow_banners") THEN Raise("AttributeError")
        ELSE IF ~allow_banners(obj) THEN ReturnNone
        ELSE IF self.banner_image # NoImage THEN Return(self.banner_image)
        ELSE IF hasattr(obj, "publish_banner_image")
             THEN Return(publish_banner_image(obj))
        ELSE ReturnNone

\* published_humanised with now >= publish in place of now > publish
published_humanised_ge(self, now) ==
    IF self.approved
    THEN IF now >= self.publish
         THEN [text |-> "ago..", amount |-> now - self.publish]
         ELSE [text |-> "left..", amount |-> self.publish - now]
    ELSE [text |-> "Still needs approval..", amount |-> 0]

\* Publish.published_humanised, with datetime.now() = now
published_humanised(self, now) ==
    IF self.approved
    THEN IF now > self.publish
         THEN [text |-> "ago..", amount |-> now - self.publish]
         ELSE [text |-> "left..", amount |-> self.publish - now]
    ELSE [text |-> "Still needs approval..", amount |-> 0]

(* ---- cache keys ------------------------------------------------------- *)

\* A cache key is a sequence of string pieces; a template variable value is
\* a sequence of one-character strings.

\* pub_settings.PUBLISA_CACHE_CLEAR_KEYS
PUBLISA_CACHE_CLEAR_KEYS == { <<"frontpage">> }

\* pub_settings.PUBLISA_CACHE_CLEAR_TEMPLATE_KEYS.items()
PUBLISA_CACHE_CLEAR_TEMPLATE_KEYS ==
    << [k |-> "latest", v |-> << <<"e", "n">>, <<"a", ":", " ">> >>] >>

\* urlquote of one character: the reserved ones are percent-encoded
urlquote_char(c) ==
    CASE c = " " -> <<"%", "2", "0">>
      [] c = ":" -> <<"%", "3", "A">>
      [] c = "%" -> <<"%", "2", "5">>
      [] OTHER -> <<c>>

RECURSIVE urlquote(_)
\* urlquote(var)
urlquote(var) ==
    IF var = <<>> THEN <<>> ELSE urlquote_char(Head(var)) \o urlquote(Tail(var))

RECURSIVE join(_)
\* u':'.join(parts)
join(parts) ==
    IF parts = <<>> THEN <<>>
    ELSE IF Len(parts) = 1 THEN Head(parts)
    ELSE Head(parts) \o <<":">> \o join(Tail(parts))

\* md5_constructor(text).hexdigest(): the digest is a function of the text
md5_hexdigest(text) == <<"md5(">> \o text \o <<")">>

\* 'template.cache.%s.%s' % (k, args.hexdigest())
cache_key(k, v) ==
    <<"template.cache.", k, ".">>
        \o md5_hexdigest(join([i \in 1..Len(v) |-> urlquote(v[i])]))

\* the number of delete calls post_save_cache_clear makes: one delete_many,
\* then one delete per template entry
NumDeletes == 1 + Len(PUBLISA_CACHE_CLEAR_TEMPLATE_KEYS)

\* the keys the i-th of those calls deletes
KeysOfDelete(i) ==
    IF i = 1 THEN PUBLISA_CACHE_CLEAR_KEYS
    ELSE LET item == PUBLISA_CACHE_CLEAR_TEMPLATE_KEYS[i - 1]
         IN  { cache_key(item.k, item.v) }

\* every key the configuration names
ConfiguredKeys == UNION { KeysOfDelete(i) : i \in 1..NumDeletes }

\* the keys the site's views and templates store pages under
CacheKeys == ConfiguredKeys

(* ---- post_save receivers ---------------------------------------------- *)

\* post_save_cache_clear that acts on created rows only
post_save_cache_clear_created_only(instance, created, c, failAt) ==
    LET done == IF failAt = 0 THEN NumDeletes ELSE failAt - 1
    IN  [cache |-> IF created THEN c \ UNION { KeysOfDelete(i) : i \in 1..done } ELSE c,
         raised |-> failAt # 0]

\* post_save_cache_clear on cache contents c.  failAt = 0: the backend
\* answers every call; failAt = i > 0: its i-th delete call raises, the
\* calls before it have been carried out and the exception leaves the
\* receiver.
post_save_cache_clear(instance, created, c, failAt) ==
    LET done == IF failAt = 0 THEN NumDeletes ELSE failAt - 1
    IN  [cache |-> c \ UNION { KeysOfDelete(i) : i \in 1..done },
         raised |-> failAt # 0]

\* post_save_published_at that acts on created rows only
post_save_published_at_created_only(instance, created, column) ==
    LET obj == content_object(instance)
    IN  IF created /\ instance.approved /\ hasattr(obj, "published_at")
        THEN [column EXCEPT ![obj] = instance.publish]
        ELSE column

\* post_save_published_at on the entities' published_at column
post_save_published_at(instance, created, column) ==
    LET obj == content_object(instance)
    IN  IF instance.approved /\ hasattr(obj, "published_at")
        THEN [column EXCEPT ![obj] = instance.publish]
        ELSE column

\* post_save.send(sender=Publish, ...): the receivers in the order they were
\* connected; an exception in one leaves send and the ones after it unrun
SendPostSave(instance, created, op, failAt) ==
    LET cleared == post_save_cache_clear(instance, created, cache, failAt)
    IN  /\ cache' = cleared.cache
        /\ IF cleared.raised
           THEN /\ published_at' = published_at
                /\ last' = [op |-> op, raised |-> "CacheError",
                            cleared |-> cleared.cache # cache]
           ELSE /\ published_at' = post_save_published_at(instance, created, published_at)
                /\ last' = [op |-> op, raised |-> "",
                            cleared |-> cleared.cache # cache]

(* ---- operations ------------------------------------------------------- *)

\* Publish(content_object=e, publish=p, approved=a, banner_image=img).save():
\* the INSERT, refused by the table's unique constraint when e has a row,
\* then the post_save receivers
Insert(e, p, a, img, failAt) ==
    LET ctype == ContentTypeFor(e.model)
        instance == [pk |-> NextPk, content_type |-> ctype, object_id |-> e.pk,
                     publish |-> p, approved |-> a, banner_image |-> img]
    IN  IF unique_together(records, ctype, e.pk)
        THEN /\ records' = records \cup {instance}
             /\ SendPostSave(instance, TRUE, "insert", failAt)
        ELSE /\ last' = [op |-> "insert", raised |-> "IntegrityError",
                         cleared |-> FALSE]
             /\ UNCHANGED <<records, published_at, cache>>

\* row old fetched, its editable fields assigned, save(): the UPDATE, then
\* the post_save receivers
Update(old, p, a, img, failAt) ==
    LET instance == [old EXCEPT !.publish = p, !.approved = a, !.banner_image = img]
    IN  /\ old \in records
        /\ records' = (records \ {old}) \cup {instance}
        /\ SendPostSave(instance, FALSE, "update", failAt)

\* a view or a template fragment stores a page under key
CacheSet(key) ==
    /\ key \notin cache
    /\ cache' = cache \cup {key}
    /\ last' = [op |-> "cache_set", raised |-> "", cleared |-> FALSE]
    /\ UNCHANGED <<records, published_at>>

\* the table has room for a row of e, or e has one already
Room(e) ==
    \/ Cardinality(records) < MaxBannerRecords
    \/ ~unique_together(records, ContentTypeFor(e.model), e.pk)

(* ---- state machine ---------------------------------------------------- *)

Init ==
    /\ records = {}
    /\ published_at = [e \in {x \in Entities : hasattr(x, "published_at")} |-> Null]
    /\ cache = {}
    /\ last = [op |-> "none", raised |-> "", cleared |-> FALSE]

Create ==
    \E e \in Listed, p \in Times, a \in BOOLEAN :
        Insert(e, p, a, NoImage, 0)

Change ==
    \E old \in records, p \in Times, a \in BOOLEAN :
        Update(old, p, a, NoImage, 0)

Fill == \E key \in CacheKeys : CacheSet(key)

Next == Create \/ Change \/ Fill

\* the program with a cache backend that answers every call
Spec == Init /\ [][Next]_vars

CreateCacheDown ==
    \E e \in Listed, p \in Times, a \in BOOLEAN, failAt \in 1..NumDeletes :
        Insert(e, p, a, NoImage, failAt)

ChangeCacheDown ==
    \E old \in records, p \in Times, a \in BOOLEAN, failAt \in 1..NumDeletes :
        Update(old, p, a, NoImage, failAt)

NextCacheFail == Create \/ Change \/ Fill \/ CreateCacheDown \/ ChangeCacheDown

\* the program with a cache backend whose delete calls may raise
SpecCacheFail == Init /\ [][NextCacheFail]_vars

CreateBanner ==
    \E e \in Entities, p \in Times, a \in BOOLEAN, img \in Images :
        Room(e) /\ Insert(e, p, a, img, 0)

ChangeBanner ==
    \E old \in records, p \in Times, a \in BOOLEAN, img \in Images :
        Update(old, p, a, img, 0)

NextBanner == CreateBanner \/ ChangeBanner \/ Fill

\* the program with banner images uploaded, on a small table
SpecBanner == Init /\ [][NextBanner]_vars

(* ---- properties ------------------------------------------------------ *)

\* the rows of a row sequence
Range(s) == { s[i] : i \in 1..Len(s) }

\* the rows of the table whose content object is obj
RowsOf(obj) ==
    { p \in records : p.content_type = obj.model /\ p.object_id = obj.pk }

\* C1: at every sampling time now, published() returns exactly the approved
\* rows with publish <= now: no unapproved row, no row with publish > now,
\* and every approved row with publish < now or publish = now.
PublishedIsExactlyVisible ==
    \A now \in Times :
        /\ published(now) # {}
        /\ \A s \in published(now) :
              /\ \A i \in 1..Len(s) :
                    s[i] \in records /\ s[i].approved /\ ~(s[i].publish > now)
              /\ \A p \in records :
                    (p.approved /\ (p.publish < now \/ p.publish = now))
                        => \E i \in 1..Len(s) : s[i] = p

\* C1 witness: at one time, an approved row published exactly then, an
\* unapproved row that is due and an approved row still in the future
PublishedWitness ==
    \E now \in Times : \E p, q, r \in records :
        /\ p.approved /\ p.publish = now
        /\ ~q.approved /\ q.publish <= now
        /\ r.approved /\ r.publish > now

\* an insert of a row for a content object that already has one
InsertOfSecondRow ==
    \E e \in Entities, p \in Times, a \in BOOLEAN, img \in Images :
        RowsOf(e) # {} /\ Insert(e, p, a, img, 0)

\* an update of the row of content object e
UpdateOfRow(e) ==
    \E old \in RowsOf(e), p \in Times, a \in BOOLEAN, img \in Images :
        Update(old, p, a, img, 0)

\* C2: the table never holds two rows for one (content_type, object_id);
\* an insert for a pair that has a row raises IntegrityError and leaves the
\* table as it was; an update of the row succeeds and leaves the pair with
\* one row.
OneRowPerEntity ==
    /\ [](\A e \in Entities : Cardinality(RowsOf(e)) <= 1)
    /\ [][InsertOfSecondRow
            => last'.raised = "IntegrityError" /\ records' = records]_vars
    /\ [][\A e \in Entities :
            UpdateOfRow(e)
                => /\ last'.raised = ""
                   /\ Cardinality({ p \in records' :
                          p.content_type = e.model /\ p.object_id = e.pk }) = 1]_vars

\* C2 witness: a second insert for a pair was refused while the table held
\* its row
OneRowPerEntityWitness ==
    /\ last.op = "insert" /\ last.raised = "IntegrityError"
    /\ \E e \in Entities : Cardinality(RowsOf(e)) = 1

\* published() at now, filtered to the rows of model and resolved to their
\* content objects: the possible entity sequences
PublishedEntitiesOfType(model, now) ==
    { LET rows == SelectSeq(s, LAMBDA p : p.content_type = ContentTypeFor(model))
      IN  [i \in 1..Len(rows) |-> content_object(rows[i])] : s \in published(now) }

\* C3 as claimed: the accessor on the model returns the entities of
\* published(), filtered to the model and resolved, in the same order.
TypeAccessorKeepsPublishOrder ==
    \A model \in Models, now \in Times :
        DescriptorGetOnModel(model, now) \subseteq PublishedEntitiesOfType(model, now)

\* C3 amended: the accessor on the model returns the same entities as
\* published() filtered to the model and resolved, each once and none whose
\* row is unapproved or in the future; their order is not the rows' order.
TypeAccessorSameEntities ==
    \A model \in Models, now \in Times :
        /\ DescriptorGetOnModel(model, now) # {}
        /\ \A res \in DescriptorGetOnModel(model, now) :
              /\ \A exp \in PublishedEntitiesOfType(model, now) :
                    Range(res) = Range(exp) /\ Len(res) = Len(exp)
              /\ \A i \in 1..Len(res) :
                    /\ res[i].model = model
                    /\ \E p \in RowsOf(res[i]) : p.approved /\ p.publish <= now
                    /\ ~\E p \in RowsOf(res[i]) : ~p.approved \/ p.publish > now

\* C3 witness: the accessor on article returns two articles whose rows
\* differ in publish, next to a visible row of another model
TypeAccessorWitness ==
    \E now \in Times : \E a, b, q \in records :
        /\ a.publish < b.publish
        /\ q.content_type # "article" /\ q.approved /\ q.publish <= now
        /\ \E res \in DescriptorGetOnModel("article", now) :
              Len(res) = 2 /\ content_object(a) = res[1] /\ content_object(b) = res[2]

\* the neighbour result res of row r names the approved row next to r on
\* the given side, in (publish, pk) order
IsNeighbour(r, res, is_next) ==
    res.tag = "return" =>
        /\ Cardinality(RowsOf(res.val)) = 1
        /\ \A q \in RowsOf(res.val) :
              /\ q.approved
              /\ IF is_next
                 THEN \/ q.publish > r.publish
                      \/ q.publish = r.publish /\ q.pk > r.pk
                 ELSE \/ q.publish < r.publish
                      \/ q.publish = r.publish /\ q.pk < r.pk
              /\ ~\E m \in records :
                    /\ m.approved
                    /\ IF is_next THEN Before(r, m) /\ Before(m, q)
                                  ELSE Before(q, m) /\ Before(m, r)

\* C4: for every row r, approved or not, an entity returned by
\* get_previous_published(r) or get_next_published(r) is the content object
\* of an approved row that is strictly before (after) r in (publish, pk)
\* order with no approved row in between.
NeighboursAreImmediateApproved ==
    \A r \in records :
        /\ IsNeighbour(r, get_previous_published(r), FALSE)
        /\ IsNeighbour(r, get_next_published(r), TRUE)

\* C4 witness: three approved rows, two of them with the same publish, and
\* the middle one is returned for the last and for the first
NeighboursWitness ==
    \E a, b, c \in records :
        /\ a.approved /\ b.approved /\ c.approved
        /\ Before(a, b) /\ Before(b, c) /\ a.publish = b.publish
        /\ get_previous_published(c).tag = "return"
        /\ get_previous_published(c).val = content_object(b)
        /\ get_next_published(a).tag = "return"
        /\ get_next_published(a).val = content_object(b)

\* C5 as claimed: a lookup that finds nothing returns None and raises
\* nothing: get_previous_published with no approved row before,
\* get_next_published with no approved row after, and the accessor on an
\* instance that has no row.
AbsentLookupsReturnNone ==
    /\ \A r \in records :
          /\ (~\E q \in records : q.approved /\ Before(q, r))
                => get_previous_published(r).tag = "None"
          /\ (~\E q \in records : q.approved /\ Before(r, q))
                => get_next_published(r).tag = "None"
    /\ \A e \in Entities :
          RowsOf(e) = {} => DescriptorGetOnInstance(e).tag = "None"

\* C6: right after a write of a Publish row that returned, an insert or an
\* update, no key of PUBLISA_CACHE_CLEAR_KEYS and no template cache key of
\* PUBLISA_CACHE_CLEAR_TEMPLATE_KEYS is in the cache.
CacheClearedAfterWrite ==
    (last.op \in {"insert", "update"} /\ last.raised = "")
        => /\ \A key \in PUBLISA_CACHE_CLEAR_KEYS : key \notin cache
           /\ \A i \in 1..Len(PUBLISA_CACHE_CLEAR_TEMPLATE_KEYS) :
                 cache_key(PUBLISA_CACHE_CLEAR_TEMPLATE_KEYS[i].k,
                                  PUBLISA_CACHE_CLEAR_TEMPLATE_KEYS[i].v) \notin cache

\* C6 witness: an update of an unapproved row has just dropped keys the
\* cache held
CacheClearedWitness ==
    /\ last.op = "update" /\ last.raised = "" /\ last.cleared
    /\ \A p \in records : ~p.approved

\* C8: after any writes, an approved row whose content object declares
\* published_at has its publish there: the mirror is that of the latest
\* approved write, insert or update.
MirrorEqualsPublishAt ==
    \A p \in records :
        (p.approved /\ hasattr(content_object(p), "published_at"))
            => published_at[content_object(p)] = p.publish

\* C7 as claimed: a cache delete that fails during the receivers is never
\* raised to the caller of save(), the row is written and the published_at
\* mirror is still brought up to date.
CacheFailureNeverReachesCaller ==
    /\ last.raised # "CacheError"
    /\ MirrorEqualsPublishAt

\* C8 witness: an update has just moved an approved article to another
\* publish time than the one the other approved article keeps
MirrorWitness ==
    /\ last.op = "update"
    /\ \E p, q \in records :
          /\ p.approved /\ q.approved /\ p.publish # q.publish
          /\ hasattr(content_object(p), "published_at")
          /\ hasattr(content_object(q), "published_at")
          /\ published_at[content_object(p)] = p.publish
          /\ published_at[content_object(q)] = q.publish

\* the banner an entity's row resolves to by the fallback chain
BannerChain(r) ==
    LET obj == content_object(r)
    IN  IF hasattr(obj, "allow_banners") /\ ~allow_banners(obj) THEN ReturnNone
        ELSE IF r.banner_image # NoImage THEN Return(r.banner_image)
        ELSE IF hasattr(obj, "publish_banner_image")
             THEN Return(publish_banner_image(obj))
        ELSE ReturnNone

\* C9 as claimed: get_banner_image follows the chain for every row: None
\* when the entity disallows banners, else the row's banner_image when set,
\* else the entity's publish_banner_image when declared, else None, and it
\* never raises.
BannerFollowsChain ==
    \A r \in records :
        /\ get_banner_image(r).tag = BannerChain(r).tag
        /\ get_banner_image(r).tag = "return"
              => get_banner_image(r).val = BannerChain(r).val

\* C10 as claimed: unapproved rows await approval; an approved row reports
\* time elapsed exactly when it is visible (publish <= now) and time
\* remaining otherwise.
HumanisedElapsedIffVisible ==
    \A r \in records, now \in Times :
        /\ ~r.approved => published_humanised(r, now).text = "Still needs approval.."
        /\ r.approved =>
              /\ published_humanised(r, now).text \in {"ago..", "left.."}
              /\ published_humanised(r, now).text = "ago.." <=> r.publish <= now

\* C10 amended: unapproved rows await approval whatever their publish; an
\* approved row reports time remaining when publish > now, time elapsed
\* when publish < now, and at publish = now, visible already, time
\* remaining (none).
HumanisedThreeWay ==
    \A r \in records, now \in Times :
        /\ ~r.approved => published_humanised(r, now).text = "Still needs approval.."
        /\ (r.approved /\ r.publish > now) => published_humanised(r, now).text = "left.."
        /\ (r.approved /\ r.publish < now) => published_humanised(r, now).text = "ago.."
        /\ (r.approved /\ r.publish = now)
              => published_humanised(r, now) = [text |-> "left..", amount |-> 0]

\* C10 witness: an approved row whose publish is a sampling time with
\* times before and after it, next to an unapproved row
HumanisedWitness ==
    \E r, u \in records :
        /\ r.approved /\ ~u.approved
        /\ \E now \in Times : r.publish = now /\ PublishedRows(now) # {}
        /\ \E now \in Times : r.publish < now
        /\ \E v \in records, now \in Times : v.approved /\ v.publish > now

====
